---- MODULE Spec2Model ----
(***************************************************************************)
(* A model of bcdl (src/bcdl/__init__.py): the resolution of an album page *)
(* into download jobs (generate_file_names) and the concurrent retrieval   *)
(* of those jobs on an asyncio event loop (download_album, download_files, *)
(* download_file, fetch_async).                                            *)
(*                                                                         *)
(* Python values are modelled as tagged records: None, str (a sequence of  *)
(* one-character strings) and dict (an insertion-ordered sequence of       *)
(* <<key, value>> pairs).  Paths are sequences of segments, as pathlib     *)
(* (POSIX flavour, separator "/") holds them.                              *)
(***************************************************************************)
EXTENDS Integers, Sequences, FiniteSets, TLC

(***************************************************************************)
(* Bounds of the model.                                                    *)
(***************************************************************************)
\* the longest trackinfo list the resolution is run on
MaxTracks == 2
\* the longest job list handed to download_files
MaxJobs == 2

(***************************************************************************)
(* Python values.                                                          *)
(***************************************************************************)
None == [tag |-> "None"]

Str(chars) == [tag |-> "str", chars |-> chars]

Dict(items) == [tag |-> "dict", items |-> items]

\* Python truthiness: None, "" and {} are falsy
Truthy(v) ==
    CASE v.tag = "None" -> FALSE
      [] v.tag = "str"  -> Len(v.chars) > 0
      [] v.tag = "dict" -> Len(v.items) > 0

\* a or b
PyOr(a, b) == IF Truthy(a) THEN a ELSE b

\* d.get(key): the value stored under key, None when the key is missing
DictGet(d, key) ==
    IF \E i \in 1..Len(d.items) : d.items[i][1] = key
    THEN d.items[CHOOSE i \in 1..Len(d.items) : d.items[i][1] = key][2]
    ELSE None

\* s.startswith(prefix)
StartsWith(s, prefix) ==
    /\ Len(s) >= Len(prefix)
    /\ SubSeq(s, 1, Len(prefix)) = prefix

\* s.replace(old, new) for one-character old and new
Replace(s, old, new) == [i \in 1..Len(s) |-> IF s[i] = old THEN new ELSE s[i]]

\* s.split(sep)[-1]: what follows the last occurrence of sep (all of s if none)
SplitLast(s, sep) ==
    LET idx == {i \in 1..Len(s) : s[i] = sep}
        last == IF idx = {} THEN 0 ELSE CHOOSE i \in idx : \A j \in idx : j <= i
    IN  SubSeq(s, last + 1, Len(s))

\* s.split(sep): the pieces between the occurrences of sep
RECURSIVE Split(_, _)
Split(s, sep) ==
    LET idx == {i \in 1..Len(s) : s[i] = sep}
    IN  IF idx = {} THEN <<s>>
        ELSE LET first == CHOOSE i \in idx : \A j \in idx : i <= j
             IN  <<SubSeq(s, 1, first - 1)>> \o Split(SubSeq(s, first + 1, Len(s)), sep)

DigitChars == <<"0", "1", "2", "3", "4", "5", "6", "7", "8", "9">>

\* str(n) for n >= 0
RECURSIVE Decimal(_)
Decimal(n) ==
    IF n < 10 THEN <<DigitChars[n + 1]>>
    ELSE Decimal(n \div 10) \o <<DigitChars[(n % 10) + 1]>>

\* f"{n:02d}" for n >= 0: decimal digits, zero-padded to width 2
Format02d(n) == IF Len(Decimal(n)) < 2 THEN <<"0">> \o Decimal(n) ELSE Decimal(n)

(***************************************************************************)
(* pathlib (PurePosixPath): a path is the sequence of its segments.        *)
(***************************************************************************)
SEP == "/"

RECURSIVE PathParts(_)
\* the segments a string contributes: empty pieces and "." are dropped
PathParts(pieces) ==
    IF pieces = <<>> THEN <<>>
    ELSE IF Head(pieces) = <<>> \/ Head(pieces) = <<".">>
         THEN PathParts(Tail(pieces))
         ELSE <<Head(pieces)>> \o PathParts(Tail(pieces))

\* folder.joinpath(name): an absolute name replaces folder
JoinPath(folder, name) ==
    IF Len(name) > 0 /\ name[1] = SEP
    THEN <<<<SEP>>>> \o PathParts(Split(name, SEP))
    ELSE folder \o PathParts(Split(name, SEP))

(***************************************************************************)
(* generate_file_names                                                     *)
(***************************************************************************)
STREAM_REDIRECT ==
    <<"h","t","t","p","s",":","/","/","b","a","n","d","c","a","m","p",".","c","o","m",
      "/","s","t","r","e","a","m","_","r","e","d","i","r","e","c","t">>

MP3_SUFFIX == <<".", "m", "p", "3">>

ALBUMART == <<"a","l","b","u","m","a","r","t",".">>

\* the mutant of TrackFileName that leaves the title as it is
TrackFileNameUnsanitized(track, folder) ==
    JoinPath(folder,
             Format02d(track.track_num) \o <<" ", "-", " ">> \o track.title \o MP3_SUFFIX)

\* the mutant of TrackFileName that leaves the track number out of the name
TrackFileNameNoNumber(track, folder) ==
    JoinPath(folder, Replace(track.title, "/", " ") \o MP3_SUFFIX)

\* fname of one track: f"{track_num:02d} - {title.replace('/', ' ')}.mp3" under folder
TrackFileName(track, folder) ==
    JoinPath(folder,
             Format02d(track.track_num) \o <<" ", "-", " ">>
                 \o Replace(track.title, "/", " ") \o MP3_SUFFIX)

\* the mutant of SelectSourceUrl that prefers mp3-v0 to mp3-128
SelectSourceUrlSwapped(source_file) ==
    LET source_url == PyOr(DictGet(source_file, "mp3-v0"), DictGet(source_file, "mp3-128"))
    IN  IF source_url = None
           \/ (source_url.tag = "str" /\ StartsWith(source_url.chars, STREAM_REDIRECT))
        THEN source_file.items[1][2]
        ELSE source_url

\* source_url of a track whose file is a non-empty mapping
SelectSourceUrl(source_file) ==
    LET source_url == PyOr(DictGet(source_file, "mp3-128"), DictGet(source_file, "mp3-v0"))
    IN  IF source_url = None
           \/ (source_url.tag = "str" /\ StartsWith(source_url.chars, STREAM_REDIRECT))
        THEN source_file.items[1][2]
        ELSE source_url

\* `if not source_file: continue`
TrackSkipped(track) == ~Truthy(track.file)

\* the job yielded for a track that is not skipped
TrackJob(track, folder) ==
    [target_file_name |-> TrackFileName(track, folder),
     source_url       |-> SelectSourceUrl(track.file)]

\* the job yielded for the album art
ArtJob(folder, album_art_url) ==
    [target_file_name |-> JoinPath(folder, ALBUMART \o SplitLast(album_art_url.chars, ".")),
     source_url       |-> album_art_url]

RECURSIVE TrackJobs(_, _)
TrackJobs(trackinfo, folder) ==
    IF trackinfo = <<>> THEN <<>>
    ELSE (IF TrackSkipped(Head(trackinfo)) THEN <<>>
          ELSE <<TrackJob(Head(trackinfo), folder)>>)
         \o TrackJobs(Tail(trackinfo), folder)

\* list(generate_file_names(tralbum_data, folder, album_art_url))
GenerateFileNames(tralbum_data, folder, album_art_url) ==
    TrackJobs(tralbum_data.trackinfo, folder)
        \o (IF Truthy(album_art_url) THEN <<ArtJob(folder, album_art_url)>> ELSE <<>>)

(***************************************************************************)
(* The inputs the model is run on.                                         *)
(***************************************************************************)
U_TRACK == <<"h","t","t","p",":","/","/","x","/","t","r","a","c","k",".","m","p","3">>

U_OTHER == <<"h","t","t","p",":","/","/","x","/","o","t","h","e","r",".","f","l","a","c">>

U_EMPTY == <<"h","t","t","p",":","/","/","x","/","e","m","p","t","y",".","m","p","3">>

U_GONE == <<"h","t","t","p",":","/","/","x","/","g","o","n","e",".","m","p","3">>

U_DOWN == <<"h","t","t","p",":","/","/","d","o","w","n","/","t",".","m","p","3">>

U_REDIRECT ==
    <<"h","t","t","p","s",":","/","/","b","a","n","d","c","a","m","p",".","c","o","m",
      "/","s","t","r","e","a","m","_","r","e","d","i","r","e","c","t","?","t","=","1">>

ART_JPG == <<"h","t","t","p",":","/","/","x","/","y",".","j","p","g">>

ART_NOEXT == <<"h","t","t","p",":","/","/","x",".","y","/","a","r","t">>

T_AB == <<"A","/","B">>

T_C == <<"C">>

T_D == <<"/","D","/","/","E">>

\* config.library_folder / artist / album title
Folder == <<<<"l","i","b","r","a","r","y">>, <<"a","r","t","i","s","t">>, <<"a","l","b","u","m">>>>

\* the `file` values of the tracks: null, {} and mappings in their JSON order
GenFiles ==
    { None,
      Dict(<<>>),
      Dict(<< <<"mp3-128", Str(U_TRACK)>> >>),
      Dict(<< <<"mp3-v0", Str(U_TRACK)>> >>),
      Dict(<< <<"mp3-128", Str(U_TRACK)>>, <<"mp3-v0", Str(U_OTHER)>> >>),
      Dict(<< <<"flac", Str(U_OTHER)>> >>),
      Dict(<< <<"mp3-128", Str(U_REDIRECT)>> >>),
      Dict(<< <<"mp3-128", Str(U_REDIRECT)>>, <<"mp3-v0", Str(U_TRACK)>> >>),
      Dict(<< <<"flac", Str(U_OTHER)>>, <<"mp3-128", Str(U_REDIRECT)>> >>),
      Dict(<< <<"mp3-128", None>>, <<"mp3-v0", Str(U_TRACK)>> >>),
      Dict(<< <<"mp3-128", None>> >>) }

GenTracks ==
    { [track_num |-> nt[1], title |-> nt[2], file |-> f] :
        nt \in { <<1, T_AB>>, <<2, T_C>>, <<10, T_D>> }, f \in GenFiles }

\* album_art_url: not given, "", and two URLs
GenArtUrls == { None, Str(<<>>), Str(ART_JPG), Str(ART_NOEXT) }

SeqsUpTo(S, n) == UNION { [1..k -> S] : k \in 0..n }

\* what each URL of the model answers: an HTTP error status, a transport failure,
\* an empty body, or content
Remote(url) ==
    CASE url = Str(U_GONE)  -> "status"
      [] url = Str(U_DOWN)  -> "transport"
      [] url = Str(U_EMPTY) -> "empty"
      [] OTHER              -> "content"

ALBUM_URL == Str(<<"h","t","t","p",":","/","/","x","/","a","l","b","u","m">>)

BatchTrack(n, title, url) ==
    [track_num |-> n, title |-> title, file |-> Dict(<< <<"mp3-128", Str(url)>> >>)]

\* the tracks of the albums the batch is run on: one per kind of answer
BatchTracks ==
    { BatchTrack(1, T_AB, U_TRACK), BatchTrack(2, T_C, U_EMPTY),
      BatchTrack(3, T_C, U_GONE), BatchTrack(4, T_C, U_DOWN) }

BatchArtUrls == { None, Str(ART_JPG), Str(ART_NOEXT) }

\* the albums the detail pages describe
BatchAlbums == [is_purchased : BOOLEAN, trackinfo : SeqsUpTo(BatchTracks, MaxJobs)]

\* the detail pages: a failed fetch, a head without data-tralbum, one blob, two blobs
\* (the second is a different album)
OtherAlbum == [is_purchased |-> FALSE, trackinfo |-> <<>>]

Pages ==
    { [kind |-> k, blobs |-> <<>>] : k \in {"transport", "status", "ok"} }
        \cup { [kind |-> "ok", blobs |-> <<a>>] : a \in BatchAlbums }
        \cup { [kind |-> "ok", blobs |-> <<a, OtherAlbum>>] :
                 a \in {b \in BatchAlbums : Len(b.trackinfo) <= 1} }

NoPage == [kind |-> "none", blobs |-> <<>>]

\* the jobs the lists handed to download_files are made of
BatchJobs ==
    { TrackJob(t, Folder) : t \in BatchTracks } \cup { ArtJob(Folder, Str(ART_JPG)) }

\* what was at a destination before the run
OLD == <<Str(<<"o","l","d">>)>>

VARIABLES
    entry,          \* the entry point this run exercises
    tralbum_data,   \* the parsed album metadata (None before it is parsed)
    album_art_url,  \* the album_art_url argument
    gen_pos,        \* generate_file_names: the track the generator is at
    yielded,        \* generate_file_names: the jobs yielded so far
    yielded_from,   \* for each yielded job, the track position it came from
    page,           \* what the album's detail page answers
    dirs,           \* the directories that exist
    fs,             \* the files that exist: path -> the chunks written to it
    download_list,  \* the jobs of the batch
    tasks,          \* the download_file tasks gather() wraps, in dispatch order
    ready,          \* the event loop's FIFO queue of ready handles
    gather,         \* the future asyncio.gather returned
    main_pc,        \* where the entry point's coroutine and asyncio.run are
    raised,         \* the exception the entry point raised ("" if none)
    requests,       \* the URLs session.request was called with in this run
    writes,         \* the destinations written to in this run
    run,            \* 1 for the first run of the batch, 2 for its repetition
    fs_start,       \* fs as it was when this run started
    collection,         \* view_collection: config.collection, the cached albums
    album_number_list,  \* view_collection: the chosen numbers, in iteration order
    progress,           \* view_collection: how many of them the loop has taken
    view_pc,            \* view_collection: where the download loop is
    view_raised,        \* view_collection: the exception that left it ("" if none)
    responses,          \* get_collection: what the endpoint answers, request by request
    gc_pc,              \* get_collection: where the generator is
    older_than_token,   \* get_collection: the cursor
    more_available,     \* get_collection: the loop flag
    collection_data,    \* get_collection: the page being yielded from
    item_pos,           \* get_collection: the item of the page the for loop is at
    posted,             \* get_collection: the older_than_token of each request made
    collected,          \* get_collection: the items yielded so far
    gc_raised           \* get_collection: the exception that left it ("" if none)

genVars == <<tralbum_data, album_art_url, gen_pos, yielded, yielded_from>>

batchVars == <<page, dirs, fs, download_list, tasks, ready, gather, main_pc, raised,
               requests, writes, run, fs_start>>

viewVars == <<collection, album_number_list, progress, view_pc, view_raised>>

collVars == <<responses, gc_pc, older_than_token, more_available, collection_data,
              item_pos, posted, collected, gc_raised>>

vars == <<entry, genVars, batchVars, viewVars, collVars>>

\* view_collection is not running
ViewIdle ==
    /\ collection = <<>>
    /\ album_number_list = <<>>
    /\ progress = 0
    /\ view_pc = "idle"
    /\ view_raised = ""

NoCollectionData == [more_available |-> FALSE, items |-> <<>>]

\* get_collection is not running
CollIdle ==
    /\ responses = <<>>
    /\ gc_pc = "idle"
    /\ older_than_token = ""
    /\ more_available = FALSE
    /\ collection_data = NoCollectionData
    /\ item_pos = 0
    /\ posted = <<>>
    /\ collected = <<>>
    /\ gc_raised = ""

NoGather == [nfuts |-> 0, nfinished |-> 0, done |-> FALSE, exc |-> ""]

(***************************************************************************)
(* generate_file_names as a generator: one action per resumption.          *)
(***************************************************************************)
NTracks == Len(tralbum_data.trackinfo)

\* the generator has been run to exhaustion
GenExhausted == entry = "generate_file_names" /\ gen_pos = NTracks + 2

\* the state in which generate_file_names is called on trackinfo drawn from tracks and
\* an album_art_url drawn from arts
GenInitWith(tracks, arts) ==
    /\ entry = "generate_file_names"
    /\ tralbum_data \in
           [is_purchased : {TRUE}, trackinfo : SeqsUpTo(tracks, MaxTracks)]
    /\ album_art_url \in arts
    /\ gen_pos = 1
    /\ yielded = <<>>
    /\ yielded_from = <<>>
    /\ page = NoPage
    /\ dirs = {}
    /\ fs = <<>>
    /\ download_list = <<>>
    /\ tasks = <<>>
    /\ ready = <<>>
    /\ gather = NoGather
    /\ main_pc = "idle"
    /\ raised = ""
    /\ requests = <<>>
    /\ writes = <<>>
    /\ run = 1
    /\ fs_start = <<>>
    /\ ViewIdle
    /\ CollIdle

GenInit == GenInitWith(GenTracks, GenArtUrls)

\* the loop body when `not source_file`: warn and continue
GenSkipTrack ==
    /\ entry = "generate_file_names"
    /\ gen_pos <= NTracks
    /\ TrackSkipped(tralbum_data.trackinfo[gen_pos])
    /\ gen_pos' = gen_pos + 1
    /\ UNCHANGED <<entry, viewVars, collVars,
                   tralbum_data, album_art_url, yielded, yielded_from, batchVars>>

\* the loop body that yields the track's job
GenYieldTrack ==
    /\ entry = "generate_file_names"
    /\ gen_pos <= NTracks
    /\ ~TrackSkipped(tralbum_data.trackinfo[gen_pos])
    /\ yielded' = Append(yielded, TrackJob(tralbum_data.trackinfo[gen_pos], Folder))
    /\ yielded_from' = Append(yielded_from, gen_pos)
    /\ gen_pos' = gen_pos + 1
    /\ UNCHANGED <<entry, viewVars, collVars, tralbum_data, album_art_url, batchVars>>

\* the mutant of GenYieldArt that yields the album art ahead of the tracks
GenYieldArtFirst ==
    /\ entry = "generate_file_names"
    /\ gen_pos = NTracks + 1
    /\ Truthy(album_art_url)
    /\ yielded' = <<ArtJob(Folder, album_art_url)>> \o yielded
    /\ yielded_from' = <<gen_pos>> \o yielded_from
    /\ gen_pos' = gen_pos + 1
    /\ UNCHANGED <<entry, viewVars, collVars, tralbum_data, album_art_url, batchVars>>

\* after the loop: `if album_art_url: yield ...`
GenYieldArt ==
    /\ entry = "generate_file_names"
    /\ gen_pos = NTracks + 1
    /\ Truthy(album_art_url)
    /\ yielded' = Append(yielded, ArtJob(Folder, album_art_url))
    /\ yielded_from' = Append(yielded_from, gen_pos)
    /\ gen_pos' = gen_pos + 1
    /\ UNCHANGED <<entry, viewVars, collVars, tralbum_data, album_art_url, batchVars>>

\* after the loop, no album art: the generator returns
GenReturn ==
    /\ entry = "generate_file_names"
    /\ gen_pos = NTracks + 1
    /\ ~Truthy(album_art_url)
    /\ gen_pos' = gen_pos + 1
    /\ UNCHANGED <<entry, viewVars, collVars,
                   tralbum_data, album_art_url, yielded, yielded_from, batchVars>>

GenNext == GenSkipTrack \/ GenYieldTrack \/ GenYieldArt \/ GenReturn

SpecGen == GenInit /\ [][GenNext]_vars

(***************************************************************************)
(* generate_file_names on albums whose tracks repeat numbers and titles:   *)
(* the inputs on which two destinations can coincide.                      *)
(***************************************************************************)
\* a title that equals T_AB once "/" is replaced by " "
T_A_B == <<"A"," ","B">>

DestTracks ==
    [track_num : {1, 10},
     title     : {T_AB, T_A_B, T_C},
     file      : {None, Dict(<< <<"mp3-128", Str(U_TRACK)>> >>)}]

DestArtUrls == { None, Str(ART_JPG), Str(ART_NOEXT) }

DestInit == GenInitWith(DestTracks, DestArtUrls)

SpecDest == DestInit /\ [][GenNext]_vars

(***************************************************************************)
(* Storage.                                                                *)
(***************************************************************************)
Exists(files, path) == path \in DOMAIN files

Parent(path) == SubSeq(path, 1, Len(path) - 1)

\* folder.mkdir(exist_ok=True, parents=True)
Mkdir(ds, folder) == ds \cup { SubSeq(folder, 1, k) : k \in 1..Len(folder) }

\* open(file, "wb"): creates the file, or truncates it
Truncated(files, path) == (path :> <<>>) @@ files

\* f.write(track) and the close that flushes it: the whole buffer is in the file
Written(files, path, url) == (path :> <<url>>) @@ files

(***************************************************************************)
(* The batch: the list comprehension that filters the jobs and creates the *)
(* download_file coroutines, and asyncio.gather, which wraps each in a     *)
(* task and schedules its first step.                                      *)
(***************************************************************************)
\* the mutant of ToDispatch that forgets the exists() filter
ToDispatchUnfiltered(jobs, files) == {j \in 1..Len(jobs) : TRUE}

\* the mutant of ToDispatch that drops the `not` of the filter
ToDispatchInverted(jobs, files) ==
    {j \in 1..Len(jobs) : Exists(files, jobs[j].target_file_name)}

\* the jobs the comprehension keeps: `if not elem["target_file_name"].exists()`
ToDispatch(jobs, files) ==
    {j \in 1..Len(jobs) : ~Exists(files, jobs[j].target_file_name)}

RECURSIVE SortedSeq(_)
\* the elements of a set of numbers, in increasing order
SortedSeq(S) ==
    IF S = {} THEN <<>>
    ELSE LET m == CHOOSE x \in S : \A y \in S : x <= y
         IN  <<m>> \o SortedSeq(S \ {m})

NewTask(jobs, j) ==
    [job |-> j, file |-> jobs[j].target_file_name, url |-> jobs[j].source_url,
     pc |-> "created", io |-> "scheduled", must_cancel |-> FALSE, exc |-> ""]

\* the tasks of the dispatched jobs, in list order
NewTasks(jobs, files) ==
    LET order == SortedSeq(ToDispatch(jobs, files))
    IN  [k \in 1..Len(order) |-> NewTask(jobs, order[k])]

StepHandle(i) == [kind |-> "step", task |-> i]

DoneHandle(i) == [kind |-> "done_cb", task |-> i]

MainHandle == [kind |-> "main", task |-> 0]

Finished(t) == t.pc \in {"done", "failed", "cancelled"}

\* tasks, ready, gather and main_pc after `await asyncio.gather(*tasks)` is reached:
\* gather() of no awaitables is already done, and the coroutine goes on to return
Dispatch(jobs) ==
    LET ts == NewTasks(jobs, fs)
    IN  /\ tasks' = ts
        /\ ready' = [k \in 1..Len(ts) |-> StepHandle(k)]
        /\ gather' = [nfuts |-> Len(ts), nfinished |-> 0, done |-> Len(ts) = 0, exc |-> ""]
        /\ main_pc' = IF Len(ts) = 0 THEN "returned" ELSE "await_gather"

(***************************************************************************)
(* download_album                                                          *)
(***************************************************************************)
\* download_album is what runs: called by the download command (line 264) or by the
\* loop of view_collection (line 246)
RunsAlbum == entry \in {"download_album", "view_collection"}

\* download_album up to `await fetch_async(album_url)` in get_album_data_from_head
StartAlbum ==
    /\ RunsAlbum
    /\ main_pc = "start"
    /\ requests' = Append(requests, ALBUM_URL)
    /\ main_pc' = "await_page"
    /\ UNCHANGED <<entry, viewVars, collVars,
                   genVars, page, dirs, fs, download_list, tasks, ready, gather,
                   raised, writes, run, fs_start>>

\* the page's fetch fails: session.request raises, or raise_for_status does
AlbumPageFailed ==
    /\ RunsAlbum
    /\ main_pc = "await_page"
    /\ page.kind \in {"transport", "status"}
    /\ raised' = IF page.kind = "transport" THEN "ClientConnectionError"
                 ELSE "ClientResponseError"
    /\ main_pc' = "returned"
    /\ UNCHANGED <<entry, viewVars, collVars,
                   genVars, page, dirs, fs, download_list, tasks, ready, gather,
                   requests, writes, run, fs_start>>

\* get_album_data_from_head: None when the head holds no data-tralbum, else the
\* first blob parsed
AlbumDataFromHead(pg) == IF Len(pg.blobs) = 0 THEN None ELSE pg.blobs[1]

\* no data-tralbum: get_album_data_from_head logs and returns None, and
\* tralbum_data["is_purchased"] raises TypeError
AlbumNoMetadata ==
    /\ RunsAlbum
    /\ main_pc = "await_page"
    /\ page.kind = "ok"
    /\ AlbumDataFromHead(page) = None
    /\ raised' = "TypeError"
    /\ main_pc' = "returned"
    /\ UNCHANGED <<entry, viewVars, collVars,
                   genVars, page, dirs, fs, download_list, tasks, ready, gather,
                   requests, writes, run, fs_start>>

\* the mutant of NotEntitled that lets every album through
NotEntitledNever(data) == FALSE

\* `if not tralbum_data["is_purchased"]`
NotEntitled(data) == ~data.is_purchased

\* the album is not purchased: raise NotPurchasedException
AlbumNotPurchased ==
    /\ RunsAlbum
    /\ main_pc = "await_page"
    /\ page.kind = "ok"
    /\ AlbumDataFromHead(page) # None
    /\ NotEntitled(AlbumDataFromHead(page))
    /\ tralbum_data' = AlbumDataFromHead(page)
    /\ raised' = "NotPurchasedException"
    /\ main_pc' = "returned"
    /\ UNCHANGED <<entry, viewVars, collVars,
                   album_art_url, gen_pos, yielded, yielded_from, page, dirs, fs,
                   download_list, tasks, ready, gather, requests, writes, run, fs_start>>

\* the album is purchased: mkdir, resolve the jobs, filter them, gather the tasks
AlbumDispatch ==
    /\ RunsAlbum
    /\ main_pc = "await_page"
    /\ page.kind = "ok"
    /\ AlbumDataFromHead(page) # None
    /\ ~NotEntitled(AlbumDataFromHead(page))
    /\ tralbum_data' = AlbumDataFromHead(page)
    /\ dirs' = Mkdir(dirs, Folder)
    /\ download_list' = GenerateFileNames(AlbumDataFromHead(page), Folder, album_art_url)
    /\ Dispatch(download_list')
    /\ UNCHANGED <<entry, viewVars, collVars,
                   album_art_url, gen_pos, yielded, yielded_from, page, fs, raised,
                   requests, writes, run, fs_start>>

(***************************************************************************)
(* download_files                                                          *)
(***************************************************************************)
StartFiles ==
    /\ entry = "download_files"
    /\ main_pc = "start"
    /\ Dispatch(download_list)
    /\ UNCHANGED <<entry, viewVars, collVars,
                   genVars, page, dirs, fs, download_list, raised, requests,
                   writes, run, fs_start>>

(***************************************************************************)
(* download_file and fetch_async: the steps of one task.  The event loop   *)
(* runs the handle at the head of ready, its FIFO queue: a task's step     *)
(* runs from one await that suspends to the next.  What resolves the       *)
(* futures the tasks wait on (the network, the executor threads aiofiles   *)
(* hands open and write to) runs beside the loop, at any time, and         *)
(* schedules the task's next step at the tail of ready.                    *)
(*                                                                         *)
(* f.write and the close that follows it are one step of the executor: the *)
(* await of close changes nothing on storage.                              *)
(***************************************************************************)
HeadIsStep(i) == ready # <<>> /\ Head(ready) = StepHandle(i)

SetTask(i, t) == [tasks EXCEPT ![i] = t]

\* the task ends (returns, raises or is cancelled): its done callback is scheduled
TaskEnds(i, pc, exc) ==
    /\ tasks' = SetTask(i, [tasks[i] EXCEPT !.pc = pc, !.io = "none", !.exc = exc])
    /\ ready' = Append(Tail(ready), DoneHandle(i))

\* the task suspends on a future
TaskAwaits(i, pc) ==
    /\ tasks' = SetTask(i, [tasks[i] EXCEPT !.pc = pc, !.io = "pending"])
    /\ ready' = Tail(ready)

\* a cancelled task is resumed: CancelledError is thrown into the coroutine (a file
\* that is open is closed as it is)
TaskCancelled(i) ==
    /\ HeadIsStep(i)
    /\ tasks[i].must_cancel
    /\ TaskEnds(i, "cancelled", "CancelledError")
    /\ UNCHANGED <<entry, viewVars, collVars,
                   genVars, page, dirs, fs, download_list, gather, main_pc,
                   raised, requests, writes, run, fs_start>>

\* the first step: download_file calls fetch_async, which calls session.request
TaskStart(i) ==
    /\ HeadIsStep(i)
    /\ ~tasks[i].must_cancel
    /\ tasks[i].pc = "created"
    /\ requests' = Append(requests, tasks[i].url)
    /\ TaskAwaits(i, "await_request")
    /\ UNCHANGED <<entry, viewVars, collVars,
                   genVars, page, dirs, fs, download_list, gather, main_pc,
                   raised, writes, run, fs_start>>

\* session.request is over: it raised, or resp.raise_for_status() raises, or the
\* task goes on to `await resp.content.read()`
TaskRequestDone(i) ==
    /\ HeadIsStep(i)
    /\ ~tasks[i].must_cancel
    /\ tasks[i].pc = "await_request"
    /\ CASE Remote(tasks[i].url) = "transport" ->
                TaskEnds(i, "failed", "ClientConnectionError")
         [] Remote(tasks[i].url) = "status" ->
                TaskEnds(i, "failed", "ClientResponseError")
         [] OTHER -> TaskAwaits(i, "await_read")
    /\ UNCHANGED <<entry, viewVars, collVars,
                   genVars, page, dirs, fs, download_list, gather, main_pc,
                   raised, requests, writes, run, fs_start>>

\* the mutant of NothingToWrite that goes on to the write whatever was read
NothingToWriteNever(answer) == FALSE

\* `if not track`
NothingToWrite(answer) == answer = "empty"

\* the body was read: `if not track: return None`, else aiofiles.open is awaited
TaskReadDone(i) ==
    /\ HeadIsStep(i)
    /\ ~tasks[i].must_cancel
    /\ tasks[i].pc = "await_read"
    /\ IF NothingToWrite(Remote(tasks[i].url))
       THEN TaskEnds(i, "done", "")
       ELSE TaskAwaits(i, "await_open")
    /\ UNCHANGED <<entry, viewVars, collVars,
                   genVars, page, dirs, fs, download_list, gather, main_pc,
                   raised, requests, writes, run, fs_start>>

\* aiofiles.open is over: it raised FileNotFoundError, or f.write is awaited
TaskOpenDone(i) ==
    /\ HeadIsStep(i)
    /\ ~tasks[i].must_cancel
    /\ tasks[i].pc = "await_open"
    /\ IF tasks[i].exc # ""
       THEN TaskEnds(i, "failed", tasks[i].exc)
       ELSE TaskAwaits(i, "await_write")
    /\ UNCHANGED <<entry, viewVars, collVars,
                   genVars, page, dirs, fs, download_list, gather, main_pc,
                   raised, requests, writes, run, fs_start>>

\* f.write is over: the download is logged, the file is closed, the task returns
TaskWriteDone(i) ==
    /\ HeadIsStep(i)
    /\ ~tasks[i].must_cancel
    /\ tasks[i].pc = "await_write"
    /\ TaskEnds(i, "done", "")
    /\ UNCHANGED <<entry, viewVars, collVars,
                   genVars, page, dirs, fs, download_list, gather, main_pc,
                   raised, requests, writes, run, fs_start>>

\* the future a task waits on is resolved: the task's next step is scheduled
Wake(i, exc) ==
    /\ tasks' = SetTask(i, [tasks[i] EXCEPT !.io = "scheduled", !.exc = exc])
    /\ ready' = Append(ready, StepHandle(i))

\* the network answers a task's request, or delivers the body
IoComplete(i) ==
    /\ tasks[i].pc \in {"await_request", "await_read"}
    /\ tasks[i].io = "pending"
    /\ Wake(i, "")
    /\ UNCHANGED <<entry, viewVars, collVars,
                   genVars, page, dirs, fs, download_list, gather, main_pc,
                   raised, requests, writes, run, fs_start>>

\* the executor thread runs open(file, "wb")
ThreadOpen(i) ==
    /\ tasks[i].pc = "await_open"
    /\ tasks[i].io = "pending"
    /\ IF Parent(tasks[i].file) \in dirs
       THEN fs' = Truncated(fs, tasks[i].file) /\ Wake(i, "")
       ELSE fs' = fs /\ Wake(i, "FileNotFoundError")
    /\ UNCHANGED <<entry, viewVars, collVars,
                   genVars, page, dirs, download_list, gather, main_pc, raised,
                   requests, writes, run, fs_start>>

\* the executor thread runs f.write(track)
ThreadWrite(i) ==
    /\ tasks[i].pc = "await_write"
    /\ tasks[i].io = "pending"
    /\ fs' = Written(fs, tasks[i].file, tasks[i].url)
    /\ writes' = Append(writes, tasks[i].file)
    /\ Wake(i, "")
    /\ UNCHANGED <<entry, viewVars, collVars,
                   genVars, page, dirs, download_list, gather, main_pc, raised,
                   requests, run, fs_start>>

(***************************************************************************)
(* asyncio.gather (return_exceptions=False) and asyncio.run, which runs    *)
(* both entry points (src/bcdl/__init__.py:246, 264).  When the entry      *)
(* point's coroutine is over, the loop finishes the iteration it is in,    *)
(* then asyncio.run cancels the tasks that are left and closes the loop:   *)
(* here CancelAllTasks may come at any time after the coroutine is over.   *)
(***************************************************************************)
\* gather's _done_callback for one task: the first exception (or cancellation)
\* resolves the outer future at once; else it is resolved when all have finished
GatherCallback(i) ==
    /\ ready # <<>>
    /\ Head(ready) = DoneHandle(i)
    /\ IF gather.done
       THEN gather' = gather /\ ready' = Tail(ready)
       ELSE IF tasks[i].pc \in {"failed", "cancelled"}
       THEN /\ gather' = [gather EXCEPT !.done = TRUE, !.exc = tasks[i].exc]
            /\ ready' = Append(Tail(ready), MainHandle)
       ELSE /\ gather' = [gather EXCEPT !.nfinished = @ + 1,
                                        !.done = (gather.nfinished + 1 = gather.nfuts)]
            /\ ready' = IF gather.nfinished + 1 = gather.nfuts
                        THEN Append(Tail(ready), MainHandle)
                        ELSE Tail(ready)
    /\ UNCHANGED <<entry, viewVars, collVars,
                   genVars, page, dirs, fs, download_list, tasks, main_pc,
                   raised, requests, writes, run, fs_start>>

\* the entry point is resumed from `await asyncio.gather(*tasks)`: it returns, or
\* the exception leaves it through the session's `async with`
MainWake ==
    /\ ready # <<>>
    /\ Head(ready) = MainHandle
    /\ main_pc = "await_gather"
    /\ raised' = gather.exc
    /\ main_pc' = "returned"
    /\ ready' = Tail(ready)
    /\ UNCHANGED <<entry, viewVars, collVars,
                   genVars, page, dirs, fs, download_list, tasks, gather,
                   requests, writes, run, fs_start>>

\* task.cancel(): the future the task waits on is cancelled (work the executor has
\* not started is dropped) and the task is resumed with CancelledError
Cancel(t) ==
    IF Finished(t) THEN t ELSE [t EXCEPT !.must_cancel = TRUE, !.io = "scheduled"]

\* asyncio.run, once the entry point is over: _cancel_all_tasks cancels what is
\* still pending
CancelAllTasks ==
    /\ main_pc = "returned"
    /\ tasks' = [i \in 1..Len(tasks) |-> Cancel(tasks[i])]
    /\ ready' = ready \o
           LET woken == SortedSeq({i \in 1..Len(tasks) :
                                     ~Finished(tasks[i]) /\ tasks[i].io = "pending"})
           IN  [k \in 1..Len(woken) |-> StepHandle(woken[k])]
    /\ main_pc' = "cancelling"
    /\ UNCHANGED <<entry, viewVars, collVars,
                   genVars, page, dirs, fs, download_list, gather, raised,
                   requests, writes, run, fs_start>>

\* asyncio.run closes the loop and hands the result or the exception to its caller
LoopClose ==
    /\ main_pc = "cancelling"
    /\ \A i \in 1..Len(tasks) : Finished(tasks[i])
    /\ ready' = <<>>
    /\ main_pc' = "closed"
    /\ UNCHANGED <<entry, viewVars, collVars,
                   genVars, page, dirs, fs, download_list, tasks, gather, raised,
                   requests, writes, run, fs_start>>

\* the same batch is run a second time
Rerun ==
    /\ main_pc = "closed"
    /\ run = 1
    /\ run' = 2
    /\ main_pc' = "start"
    /\ fs_start' = fs
    /\ tralbum_data' = None
    /\ download_list' = IF entry = "download_files" THEN download_list ELSE <<>>
    /\ tasks' = <<>>
    /\ gather' = NoGather
    /\ raised' = ""
    /\ requests' = <<>>
    /\ writes' = <<>>
    /\ UNCHANGED <<entry, viewVars, collVars,
                   album_art_url, gen_pos, yielded, yielded_from, page, dirs, fs,
                   ready>>

\* the destinations of a job list
Dests(jobs) == { jobs[j].target_file_name : j \in 1..Len(jobs) }

NoFiles == [path \in {} |-> <<>>]

Init ==
    /\ entry \in {"download_album", "download_files"}
    /\ tralbum_data = None
    /\ gen_pos = 0
    /\ yielded = <<>>
    /\ yielded_from = <<>>
    /\ \/ /\ entry = "download_album"
          /\ page \in Pages
          /\ album_art_url \in BatchArtUrls
          /\ download_list = <<>>
          /\ page.blobs # <<>> =>
                 Len(GenerateFileNames(page.blobs[1], Folder, album_art_url)) <= MaxJobs
          /\ page.blobs = <<>> => album_art_url = None
          /\ \E old \in SUBSET (IF page.blobs = <<>> THEN {}
                                ELSE Dests(GenerateFileNames(page.blobs[1], Folder,
                                                             album_art_url))) :
                 fs = [path \in old |-> OLD]
       \/ /\ entry = "download_files"
          /\ page = NoPage
          /\ album_art_url = None
          /\ download_list \in SeqsUpTo(BatchJobs, MaxJobs)
          /\ \E old \in SUBSET Dests(download_list) : fs = [path \in old |-> OLD]
    /\ dirs \in {{}, Mkdir({}, Folder)}
    /\ \A path \in DOMAIN fs : Parent(path) \in dirs
    /\ tasks = <<>>
    /\ ready = <<>>
    /\ gather = NoGather
    /\ main_pc = "start"
    /\ raised = ""
    /\ requests = <<>>
    /\ writes = <<>>
    /\ run = 1
    /\ fs_start = fs
    /\ ViewIdle
    /\ CollIdle

Next ==
    \/ StartAlbum
    \/ AlbumPageFailed
    \/ AlbumNoMetadata
    \/ AlbumNotPurchased
    \/ AlbumDispatch
    \/ StartFiles
    \/ \E i \in 1..Len(tasks) : TaskCancelled(i)
    \/ \E i \in 1..Len(tasks) : TaskStart(i)
    \/ \E i \in 1..Len(tasks) : TaskRequestDone(i)
    \/ \E i \in 1..Len(tasks) : TaskReadDone(i)
    \/ \E i \in 1..Len(tasks) : TaskOpenDone(i)
    \/ \E i \in 1..Len(tasks) : TaskWriteDone(i)
    \/ \E i \in 1..Len(tasks) : IoComplete(i)
    \/ \E i \in 1..Len(tasks) : ThreadOpen(i)
    \/ \E i \in 1..Len(tasks) : ThreadWrite(i)
    \/ \E i \in 1..Len(tasks) : GatherCallback(i)
    \/ MainWake
    \/ CancelAllTasks
    \/ LoopClose
    \/ Rerun

Spec == Init /\ [][Next]_vars

(***************************************************************************)
(* view_collection: the loop that runs download_album, under asyncio.run,  *)
(* for each chosen album.  Nothing around asyncio.run catches anything, so *)
(* an exception of download_album leaves the loop and the command.  The    *)
(* albums here share one artist and title, hence one folder.               *)
(***************************************************************************)
MaxAlbums == 2

ViewTrack(url) == BatchTrack(1, T_AB, url)

\* what the item_url of a cached album answers: a failed fetch, a head without
\* data-tralbum, an album that is not purchased, two that are
ViewPages ==
    { [kind |-> "transport", blobs |-> <<>>],
      [kind |-> "ok", blobs |-> <<>>],
      [kind |-> "ok", blobs |-> <<[is_purchased |-> FALSE,
                                   trackinfo |-> <<ViewTrack(U_TRACK)>>]>>],
      [kind |-> "ok", blobs |-> <<[is_purchased |-> TRUE,
                                   trackinfo |-> <<ViewTrack(U_TRACK)>>]>>],
      [kind |-> "ok", blobs |-> <<[is_purchased |-> TRUE,
                                   trackinfo |-> <<ViewTrack(U_DOWN)>>]>>] }

\* the items of config.collection
ViewItems == [page : ViewPages, item_art_url : {Str(ART_JPG)}]

\* the sequences of distinct numbers below n, the orders a set of them is iterated in
Selections(n) ==
    {sel \in SeqsUpTo(1..n, n) :
        \A i, j \in 1..Len(sel) : i # j => sel[i] # sel[j]}

ViewInit ==
    /\ entry = "view_collection"
    /\ collection \in SeqsUpTo(ViewItems, MaxAlbums)
    /\ album_number_list \in Selections(Len(collection))
    /\ progress = 0
    /\ view_pc = "loop"
    /\ view_raised = ""
    /\ tralbum_data = None
    /\ album_art_url = None
    /\ gen_pos = 0
    /\ yielded = <<>>
    /\ yielded_from = <<>>
    /\ page = NoPage
    /\ dirs = {}
    /\ fs = NoFiles
    /\ download_list = <<>>
    /\ tasks = <<>>
    /\ ready = <<>>
    /\ gather = NoGather
    /\ main_pc = "idle"
    /\ raised = ""
    /\ requests = <<>>
    /\ writes = <<>>
    /\ run = 1
    /\ fs_start = fs
    /\ CollIdle

\* `for idx in progress`: the next chosen album is taken and asyncio.run starts
\* download_album(album_url=album["item_url"], album_art_url=album["item_art_url"])
ViewNextAlbum ==
    /\ entry = "view_collection"
    /\ view_pc = "loop"
    /\ progress < Len(album_number_list)
    /\ progress' = progress + 1
    /\ view_pc' = "asyncio.run"
    /\ page' = collection[album_number_list[progress + 1]].page
    /\ album_art_url' = collection[album_number_list[progress + 1]].item_art_url
    /\ main_pc' = "start"
    /\ tralbum_data' = None
    /\ download_list' = <<>>
    /\ tasks' = <<>>
    /\ gather' = NoGather
    /\ raised' = ""
    /\ requests' = <<>>
    /\ writes' = <<>>
    /\ fs_start' = fs
    /\ UNCHANGED <<entry, collection, album_number_list, view_raised, collVars,
                   gen_pos, yielded, yielded_from, dirs, fs, ready, run>>

\* asyncio.run returns: the loop goes on to the next chosen album
ViewAlbumReturned ==
    /\ entry = "view_collection"
    /\ view_pc = "asyncio.run"
    /\ main_pc = "closed"
    /\ raised = ""
    /\ view_pc' = "loop"
    /\ UNCHANGED <<entry, collection, album_number_list, progress, view_raised,
                   collVars, genVars, batchVars>>

\* asyncio.run re-raises what download_album raised: the exception leaves the loop,
\* the progress bar and view_collection
ViewAlbumRaised ==
    /\ entry = "view_collection"
    /\ view_pc = "asyncio.run"
    /\ main_pc = "closed"
    /\ raised # ""
    /\ view_raised' = raised
    /\ view_pc' = "raised"
    /\ UNCHANGED <<entry, collection, album_number_list, progress, collVars, genVars,
                   batchVars>>

\* the chosen albums are exhausted: view_collection returns
ViewReturn ==
    /\ entry = "view_collection"
    /\ view_pc = "loop"
    /\ progress = Len(album_number_list)
    /\ view_pc' = "returned"
    /\ UNCHANGED <<entry, collection, album_number_list, progress, view_raised,
                   collVars, genVars, batchVars>>

ViewNext ==
    \/ ViewNextAlbum
    \/ ViewAlbumReturned
    \/ ViewAlbumRaised
    \/ ViewReturn
    \/ StartAlbum
    \/ AlbumPageFailed
    \/ AlbumNoMetadata
    \/ AlbumNotPurchased
    \/ AlbumDispatch
    \/ \E i \in 1..Len(tasks) : TaskCancelled(i)
    \/ \E i \in 1..Len(tasks) : TaskStart(i)
    \/ \E i \in 1..Len(tasks) : TaskRequestDone(i)
    \/ \E i \in 1..Len(tasks) : TaskReadDone(i)
    \/ \E i \in 1..Len(tasks) : TaskOpenDone(i)
    \/ \E i \in 1..Len(tasks) : TaskWriteDone(i)
    \/ \E i \in 1..Len(tasks) : IoComplete(i)
    \/ \E i \in 1..Len(tasks) : ThreadOpen(i)
    \/ \E i \in 1..Len(tasks) : ThreadWrite(i)
    \/ \E i \in 1..Len(tasks) : GatherCallback(i)
    \/ MainWake
    \/ CancelAllTasks
    \/ LoopClose

SpecView == ViewInit /\ [][ViewNext]_vars

(***************************************************************************)
(* get_collection as a generator, run to exhaustion by list() in           *)
(* update_collection.  The endpoint's answers are a sequence of pages, the *)
(* n-th answering the n-th request; the last one says more_available is    *)
(* false, the pages before it say what they like.                          *)
(***************************************************************************)
MaxPages == 2

MaxItems == 2

\* f"{now_tst}:0:a::", at the time of the call
NOW_TOKEN == "now:0:a::"

\* the items a page holds: only their token matters here
CollectionItems == [token : {"t1", "t2"}]

CollectionPages ==
    [more_available : BOOLEAN, items : SeqsUpTo(CollectionItems, MaxItems)]

CollInit ==
    /\ entry = "get_collection"
    /\ responses \in SeqsUpTo(CollectionPages, MaxPages)
    /\ responses # <<>>
    /\ ~responses[Len(responses)].more_available
    /\ gc_pc = "while"
    /\ older_than_token = NOW_TOKEN
    /\ more_available = TRUE
    /\ collection_data = NoCollectionData
    /\ item_pos = 0
    /\ posted = <<>>
    /\ collected = <<>>
    /\ gc_raised = ""
    /\ tralbum_data = None
    /\ album_art_url = None
    /\ gen_pos = 0
    /\ yielded = <<>>
    /\ yielded_from = <<>>
    /\ page = NoPage
    /\ dirs = {}
    /\ fs = NoFiles
    /\ download_list = <<>>
    /\ tasks = <<>>
    /\ ready = <<>>
    /\ gather = NoGather
    /\ main_pc = "idle"
    /\ raised = ""
    /\ requests = <<>>
    /\ writes = <<>>
    /\ run = 1
    /\ fs_start = fs
    /\ ViewIdle

\* the page the next request is answered with
NextResponse == responses[Len(posted) + 1]

\* one turn of `while more_available` on a page that has items: the request is posted
\* with the cursor, more_available and the cursor are taken from the answer
CollectionPage ==
    /\ entry = "get_collection"
    /\ gc_pc = "while"
    /\ more_available
    /\ Len(posted) < Len(responses)
    /\ NextResponse.items # <<>>
    /\ posted' = Append(posted, older_than_token)
    /\ collection_data' = NextResponse
    /\ more_available' = NextResponse.more_available
    /\ older_than_token' = NextResponse.items[Len(NextResponse.items)].token
    /\ item_pos' = 1
    /\ gc_pc' = "for"
    /\ UNCHANGED <<entry, genVars, batchVars, viewVars, responses, collected, gc_raised>>

\* the same on a page without items: collection_data["items"][-1] raises IndexError
CollectionEmptyPage ==
    /\ entry = "get_collection"
    /\ gc_pc = "while"
    /\ more_available
    /\ Len(posted) < Len(responses)
    /\ NextResponse.items = <<>>
    /\ posted' = Append(posted, older_than_token)
    /\ collection_data' = NextResponse
    /\ more_available' = NextResponse.more_available
    /\ gc_raised' = "IndexError"
    /\ gc_pc' = "raised"
    /\ UNCHANGED <<entry, genVars, batchVars, viewVars, responses, older_than_token,
                   item_pos, collected>>

\* `for item in collection_data["items"]: yield item`
CollectionYield ==
    /\ entry = "get_collection"
    /\ gc_pc = "for"
    /\ item_pos <= Len(collection_data.items)
    /\ collected' = Append(collected, collection_data.items[item_pos])
    /\ item_pos' = item_pos + 1
    /\ UNCHANGED <<entry, genVars, batchVars, viewVars, responses, gc_pc,
                   older_than_token, more_available, collection_data, posted, gc_raised>>

\* the page's items are exhausted: back to the test of the while loop
CollectionPageDone ==
    /\ entry = "get_collection"
    /\ gc_pc = "for"
    /\ item_pos > Len(collection_data.items)
    /\ gc_pc' = "while"
    /\ UNCHANGED <<entry, genVars, batchVars, viewVars, responses, older_than_token,
                   more_available, collection_data, item_pos, posted, collected,
                   gc_raised>>

\* more_available is false: the generator returns
CollectionReturn ==
    /\ entry = "get_collection"
    /\ gc_pc = "while"
    /\ ~more_available
    /\ gc_pc' = "returned"
    /\ UNCHANGED <<entry, genVars, batchVars, viewVars, responses, older_than_token,
                   more_available, collection_data, item_pos, posted, collected,
                   gc_raised>>

CollNext ==
    \/ CollectionPage
    \/ CollectionEmptyPage
    \/ CollectionYield
    \/ CollectionPageDone
    \/ CollectionReturn

SpecCollection == CollInit /\ [][CollNext]_vars

(***************************************************************************)
(* Claims about generate_file_names, checked under SpecGen.                *)
(***************************************************************************)
IsRedirect(v) == v.tag = "str" /\ StartsWith(v.chars, STREAM_REDIRECT)

HasKey(d, key) == \E i \in 1..Len(d.items) : d.items[i][1] = key

\* an entry that holds a URL (a null entry counts as absent)
HasUrl(d, key) == HasKey(d, key) /\ DictGet(d, key) # None

\* the yielded jobs that come from a track, as positions of yielded
TrackJobPositions ==
    {k \in 1..Len(yielded) : entry = "generate_file_names" /\ yielded_from[k] <= NTracks}

TrackOf(k) == tralbum_data.trackinfo[yielded_from[k]]

\* C6: for every track with a non-empty candidate mapping, the source URL chosen by
\* generate_file_names never starts with the stream_redirect prefix.
C6_NeverRedirect ==
    \A k \in TrackJobPositions : ~IsRedirect(yielded[k].source_url)

\* C7 as stated: the chosen URL is the mp3-128 URL if present, else the mp3-v0 URL if
\* present, else the first candidate of the mapping.
C7_PreferenceOrder ==
    \A k \in TrackJobPositions :
        LET f == TrackOf(k).file
        IN  yielded[k].source_url =
                IF HasUrl(f, "mp3-128") THEN DictGet(f, "mp3-128")
                ELSE IF HasUrl(f, "mp3-v0") THEN DictGet(f, "mp3-v0")
                ELSE f.items[1][2]

\* C7 amended: the chosen URL is the mp3-128 URL if present and not a stream_redirect
\* URL; else, when no mp3-128 URL is present, the mp3-v0 URL if present and not a
\* stream_redirect URL; in every other case the first candidate of the mapping.  A
\* mapping with only an mp3-v0 entry selects that entry's URL.
C7_PreferenceOrderAmended ==
    \A k \in TrackJobPositions :
        LET f == TrackOf(k).file
            chosen == yielded[k].source_url
            u128 == DictGet(f, "mp3-128")
            uv0 == DictGet(f, "mp3-v0")
        IN  /\ (HasUrl(f, "mp3-128") /\ ~IsRedirect(u128)) => chosen = u128
            /\ (~HasUrl(f, "mp3-128") /\ HasUrl(f, "mp3-v0") /\ ~IsRedirect(uv0))
                   => chosen = uv0
            /\ (\/ (HasUrl(f, "mp3-128") /\ IsRedirect(u128))
                \/ (~HasUrl(f, "mp3-128") /\ ~HasUrl(f, "mp3-v0"))
                \/ (~HasUrl(f, "mp3-128") /\ HasUrl(f, "mp3-v0") /\ IsRedirect(uv0)))
                   => chosen = f.items[1][2]
            /\ (Len(f.items) = 1 /\ HasUrl(f, "mp3-v0")) => chosen = uv0

\* C7 witness: a track offering both keys has had its mp3-128 URL chosen, and a track
\* offering only mp3-v0 has had that URL chosen
C7_Witness ==
    /\ \E k \in TrackJobPositions :
           /\ HasUrl(TrackOf(k).file, "mp3-128") /\ HasUrl(TrackOf(k).file, "mp3-v0")
           /\ yielded[k].source_url = Str(U_TRACK)
    /\ \E k \in TrackJobPositions :
           /\ TrackOf(k).file = Dict(<< <<"mp3-v0", Str(U_TRACK)>> >>)
           /\ yielded[k].source_url = Str(U_TRACK)

ExampleTracks(f1, f2) ==
    << [track_num |-> 1, title |-> T_AB, file |-> f1],
       [track_num |-> 2, title |-> T_C, file |-> f2] >>

ExampleNames ==
    << Folder \o <<<<"0","1"," ","-"," ","A"," ","B",".","m","p","3">>>>,
       Folder \o <<<<"0","2"," ","-"," ","C",".","m","p","3">>>>,
       Folder \o <<<<"a","l","b","u","m","a","r","t",".","j","p","g">>>> >>

\* C8: the exhausted generator has yielded the track jobs in the order of trackinfo,
\* one per track whose file is a non-empty mapping and none for the others, and, when
\* a cover art URL is supplied, exactly one album-art job, as the last element; tracks
\* (1,"A/B"), (2,"C") with art http://x/y.jpg give 01 - A B.mp3, 02 - C.mp3,
\* albumart.jpg in that order.
C8_TracksThenArt ==
    GenExhausted =>
        LET n == Len(yielded)
            artAt == {k \in 1..n : yielded_from[k] = NTracks + 1}
        IN  /\ Len(yielded_from) = n
            /\ \A j, k \in 1..n : j < k => yielded_from[j] < yielded_from[k]
            /\ {yielded_from[k] : k \in TrackJobPositions}
                   = {i \in 1..NTracks : Truthy(tralbum_data.trackinfo[i].file)}
            /\ Truthy(album_art_url) =>
                   /\ artAt = {n}
                   /\ yielded[n].source_url = album_art_url
            /\ ~Truthy(album_art_url) => artAt = {}
            /\ (/\ \E f1, f2 \in GenFiles :
                       /\ Truthy(f1) /\ Truthy(f2)
                       /\ tralbum_data.trackinfo = ExampleTracks(f1, f2)
                /\ album_art_url = Str(ART_JPG))
                   => [k \in 1..n |-> yielded[k].target_file_name] = ExampleNames

\* C8 witness: the example album has been resolved to its three jobs
C8_Witness ==
    /\ GenExhausted
    /\ \E f1, f2 \in GenFiles :
           /\ Truthy(f1) /\ Truthy(f2)
           /\ tralbum_data.trackinfo = ExampleTracks(f1, f2)
    /\ album_art_url = Str(ART_JPG)
    /\ Len(yielded) = 3

\* C9: every track job's destination is a direct child of the destination folder; its
\* filename is the two-digit track number, " - ", the title with each "/" replaced by
\* a space, and ".mp3", and holds no path separator.
C9_SanitizedFileName ==
    \A k \in TrackJobPositions :
        LET path == yielded[k].target_file_name
            t == TrackOf(k)
            name == path[Len(path)]
            tl == Len(t.title)
        IN  /\ Len(path) = Len(Folder) + 1
            /\ SubSeq(path, 1, Len(Folder)) = Folder
            /\ \A i \in 1..Len(name) : name[i] # SEP
            /\ Len(name) = 2 + 3 + tl + 4
            /\ name[1] = DigitChars[(t.track_num \div 10) + 1]
            /\ name[2] = DigitChars[(t.track_num % 10) + 1]
            /\ SubSeq(name, 3, 5) = <<" ", "-", " ">>
            /\ \A i \in 1..tl :
                   name[5 + i] = IF t.title[i] = "/" THEN " " ELSE t.title[i]
            /\ SubSeq(name, 6 + tl, 9 + tl) = <<".", "m", "p", "3">>

\* C9 witness: a job has been yielded for a title with several separators
C9_Witness ==
    \E k \in TrackJobPositions :
        Cardinality({i \in 1..Len(TrackOf(k).title) : TrackOf(k).title[i] = "/"}) > 1

\* a mapping value that is a URL: a non-empty string
IsUrl(v) == v.tag = "str" /\ Len(v.chars) > 0

\* the track has no usable source candidate: file is null, an empty mapping, or a
\* mapping none of whose values is a URL
NoUsableSource(track) ==
    \/ track.file = None
    \/ /\ track.file.tag = "dict"
       /\ \A i \in 1..Len(track.file.items) : ~IsUrl(track.file.items[i][2])

\* C11: a track with no usable source candidate (null, an empty mapping, or a mapping
\* without any URL) contributes no job, and every job yielded for a track carries a
\* non-null source URL that is a value of the track's candidate mapping.
C11_NoSourceNoJob ==
    entry = "generate_file_names" =>
        /\ \A k \in TrackJobPositions :
               /\ ~NoUsableSource(TrackOf(k))
               /\ yielded[k].source_url # None
               /\ \E i \in 1..Len(TrackOf(k).file.items) :
                      TrackOf(k).file.items[i][2] = yielded[k].source_url
        /\ GenExhausted =>
               \A i \in 1..NTracks :
                   ~NoUsableSource(tralbum_data.trackinfo[i])
                       => \E k \in TrackJobPositions : yielded_from[k] = i

\* the extension of a URL's final path segment: what follows the last "." of what
\* follows the last "/"
ExtOfLastSegment(url) == SplitLast(SplitLast(url, SEP), ".")

\* the yielded job that is the album art's, as positions of yielded
ArtJobPositions ==
    {k \in 1..Len(yielded) : entry = "generate_file_names" /\ yielded_from[k] = NTracks + 1}

\* C18: the album-art job's destination is the direct child albumart.<ext> of the
\* destination folder, <ext> being the extension of the URL's final path segment, and
\* its source URL is the cover art URL unchanged.
C18_AlbumArtName ==
    \A k \in ArtJobPositions :
        /\ yielded[k].source_url = album_art_url
        /\ yielded[k].target_file_name
               = Folder \o <<ALBUMART \o ExtOfLastSegment(album_art_url.chars)>>

\* two tracks get the same file name: same number, and titles equal once sanitized
SameName(t1, t2) ==
    /\ t1.track_num = t2.track_num
    /\ Replace(t1.title, "/", " ") = Replace(t2.title, "/", " ")

\* the track numbers of the album are pairwise distinct
DistinctTrackNums ==
    \A i, j \in 1..NTracks :
        i # j => tralbum_data.trackinfo[i].track_num # tralbum_data.trackinfo[j].track_num

\* C12 as stated: the destinations produced for one album (all tracks plus the optional
\* album art) are pairwise distinct.
C12_PairwiseDistinct ==
    entry = "generate_file_names" =>
        \A j, k \in 1..Len(yielded) :
            j # k => yielded[j].target_file_name # yielded[k].target_file_name

\* C12 amended: two track jobs have the same destination exactly when their tracks have
\* the same number and titles that are equal after "/" is replaced by " "; the album
\* art's destination differs from every track's; so the destinations of an album whose
\* track numbers are pairwise distinct are pairwise distinct.
C12_DistinctUnlessSameName ==
    entry = "generate_file_names" =>
        /\ \A j, k \in TrackJobPositions :
               j # k =>
                   (yielded[j].target_file_name = yielded[k].target_file_name
                        <=> SameName(TrackOf(j), TrackOf(k)))
        /\ \A j \in TrackJobPositions : \A k \in ArtJobPositions :
               yielded[j].target_file_name # yielded[k].target_file_name
        /\ DistinctTrackNums =>
               \A j, k \in 1..Len(yielded) :
                   j # k => yielded[j].target_file_name # yielded[k].target_file_name

\* the generator is exhausted on an album of two tracks with one title under different
\* numbers followed by the album art: three jobs, three destinations
C12_Witness ==
    /\ GenExhausted
    /\ Len(yielded) = 3
    /\ ArtJobPositions = {3}
    /\ DistinctTrackNums
    /\ TrackOf(1).title = TrackOf(2).title
    /\ Cardinality({yielded[k].target_file_name : k \in 1..3}) = 3

(***************************************************************************)
(* Claims about the batch, checked under Spec.                             *)
(***************************************************************************)
\* the entry point's coroutine is over (it returned or raised)
BatchOver == main_pc \in {"returned", "cancelling", "closed"}

\* the requests of this run other than the one for the detail page
AssetRequests == SelectSeq(requests, LAMBDA u : u # ALBUM_URL)

\* the jobs of the batch whose destination existed when this run started
PreExisting ==
    {j \in 1..Len(download_list) : Exists(fs_start, download_list[j].target_file_name)}

\* job j was skipped: no task, hence no fetch, and its destination is as it was
Skipped(j) ==
    LET dest == download_list[j].target_file_name
    IN  /\ \A i \in 1..Len(tasks) : tasks[i].job # j
        /\ \A k \in 1..Len(writes) : writes[k] # dest
        /\ Exists(fs, dest) /\ fs[dest] = fs_start[dest]

PageNotPurchased ==
    /\ entry = "download_album"
    /\ page.kind = "ok"
    /\ page.blobs # <<>>
    /\ ~page.blobs[1].is_purchased

\* C1: when the album's metadata has is_purchased = false, download_album raises
\* NotPurchasedException, no download_file task is ever created and the only request
\* ever made is the one for the detail page.
C1_NotPurchasedNoFetch ==
    PageNotPurchased =>
        /\ tasks = <<>>
        /\ download_list = <<>>
        /\ AssetRequests = <<>>
        /\ Len(requests) <= 1
        /\ writes = <<>>
        /\ fs = fs_start
        /\ BatchOver => raised = "NotPurchasedException"

\* C1 witness: an album that is not purchased, with a track whose file is missing on
\* storage, has been refused after the request for its page
C1_Witness ==
    /\ PageNotPurchased
    /\ main_pc = "closed"
    /\ raised = "NotPurchasedException"
    /\ requests = <<ALBUM_URL>>
    /\ \E j \in 1..Len(GenerateFileNames(page.blobs[1], Folder, album_art_url)) :
           ~Exists(fs, GenerateFileNames(page.blobs[1], Folder, album_art_url)[j]
                           .target_file_name)

\* C2: of the N jobs of the batch, the M whose destination existed when the batch
\* started are skipped (no task, no fetch, no write) and each of the other N - M is
\* fetched exactly once, whatever the order in which the tasks' I/O completes.
C2_FetchCount ==
    LET N == Len(download_list)
        M == Cardinality(PreExisting)
    IN  /\ Len(AssetRequests) <= N - M
        /\ \A j \in PreExisting : Skipped(j)
        /\ BatchOver =>
               /\ Len(AssetRequests) = N - M
               /\ Len(tasks) = N - M
               /\ {tasks[i].job : i \in 1..Len(tasks)} = (1..N) \ PreExisting
               /\ \A i \in 1..Len(tasks) :
                      Cardinality({k \in 1..Len(AssetRequests) :
                                     AssetRequests[k] = tasks[i].url})
                          = Cardinality({h \in 1..Len(tasks) : tasks[h].url = tasks[i].url})

\* C2 witness: a batch of several jobs, some pre-existing and some not, is over
C2_Witness ==
    /\ main_pc = "closed"
    /\ Len(download_list) >= 2
    /\ PreExisting # {}
    /\ Len(AssetRequests) = Len(download_list) - Cardinality(PreExisting)
    /\ Len(AssetRequests) >= 1

\* C3 as stated: the second run of the batch writes no file and skips every job
\* (dispatches none).
C3_SecondRunAllSkipped ==
    (run = 2 /\ main_pc = "closed") =>
        /\ writes = <<>>
        /\ tasks = <<>>
        /\ AssetRequests = <<>>

\* C3 amended: on the second run every job whose destination the first run left on
\* storage is skipped (no fetch, no write); when the first run left every destination
\* on storage, the second run writes nothing, fetches nothing and skips every job.
C3_SecondRunSkipsExisting ==
    run = 2 =>
        /\ \A j \in PreExisting : Skipped(j)
        /\ PreExisting = 1..Len(download_list) =>
               /\ writes = <<>>
               /\ tasks = <<>>
               /\ AssetRequests = <<>>
               /\ fs = fs_start

\* C3 witness: the first run wrote every destination of a batch of several jobs, and
\* the second run is over with every job skipped
C3_Witness ==
    /\ run = 2
    /\ main_pc = "closed"
    /\ Len(download_list) >= 2
    /\ PreExisting = 1..Len(download_list)
    /\ \A j \in 1..Len(download_list) :
           fs_start[download_list[j].target_file_name] = <<download_list[j].source_url>>
    /\ tasks = <<>>
    /\ writes = <<>>

\* C4: once the batch is over, also when a sibling job has failed and the pending
\* jobs were cancelled, no destination holds an empty (opened, never written) file:
\* each is absent or holds complete content.
C4_AllOrNothing ==
    main_pc = "closed" => \A path \in DOMAIN fs : fs[path] # <<>>

FetchFailed(t) ==
    t.pc = "failed" /\ t.exc \in {"ClientConnectionError", "ClientResponseError"}

\* C5: when a dispatched job's fetch has failed with a transport or HTTP-status error,
\* every other dispatched job has still run to its own outcome once the batch is
\* over: none was cancelled, and each whose content is non-empty wrote its file.
C5_FailureIsolation ==
    (main_pc = "closed" /\ \E i \in 1..Len(tasks) : FetchFailed(tasks[i])) =>
        \A i \in 1..Len(tasks) :
            /\ tasks[i].pc \in {"done", "failed"}
            /\ (Remote(tasks[i].url) = "content" /\ Parent(tasks[i].file) \in dirs)
                   => \E k \in 1..Len(writes) : writes[k] = tasks[i].file

\* C10: when the page's head holds no data-tralbum element, download_album raises a
\* dedicated metadata-not-found error to its caller and fetches no asset.
C10_MetadataNotFound ==
    (entry = "download_album" /\ page.kind = "ok" /\ page.blobs = <<>> /\ BatchOver) =>
        /\ raised = "MetadataNotFoundError"
        /\ AssetRequests = <<>>

\* the tasks of the batch whose fetch answers with empty content
EmptyTasks == {i \in 1..Len(tasks) : Remote(tasks[i].url) = "empty"}

\* C13: when a job's fetch succeeds but returns empty content, download_file leaves
\* storage unchanged (the destination is neither opened nor created nor written) and
\* the job ends without error: it is done when the batch is over, unless a sibling's
\* failure had it cancelled before its fetch returned.
C13_EmptyContentNoWrite ==
    \A i \in EmptyTasks :
        /\ tasks[i].pc \notin {"await_open", "await_write", "failed"}
        /\ tasks[i].pc # "cancelled" => tasks[i].exc = ""
        /\ ~Exists(fs, tasks[i].file)
        /\ \A k \in 1..Len(writes) : writes[k] # tasks[i].file
        /\ (main_pc = "closed" /\ raised = "") => tasks[i].pc = "done"

\* C13 witness: a batch with a job whose content was empty and a job that wrote its
\* file is over; the empty job is done and its destination is not on storage
C13_Witness ==
    /\ main_pc = "closed"
    /\ raised = ""
    /\ writes # <<>>
    /\ \E i \in EmptyTasks : tasks[i].pc = "done" /\ ~Exists(fs, tasks[i].file)

\* C14: the batch hands control back to its caller, by return or by raised error, only
\* after every dispatched job has completed: once the entry point's coroutine is over
\* no dispatched job is still in flight, also when some job has failed.
C14_FinalJoin ==
    BatchOver => \A i \in 1..Len(tasks) : Finished(tasks[i])

\* C16: on every path that writes a fetched asset, the parent directory of the
\* destination exists when the job opens the destination for writing, so no open fails
\* because the directory is missing.
C16_ParentCreated ==
    \A i \in 1..Len(tasks) :
        /\ tasks[i].pc = "await_open" => Parent(tasks[i].file) \in dirs
        /\ tasks[i].exc # "FileNotFoundError"

\* C16 restricted to the batch in download_album, which creates the folder (line 162)
\* but not what an album-art name with a "/" in it puts below the folder
C16_AlbumParentCreated == entry = "download_album" => C16_ParentCreated

\* the k-th chosen album is one that is not purchased
ChosenNotPurchased(k) ==
    LET pg == collection[album_number_list[k]].page
    IN  pg.kind = "ok" /\ pg.blobs # <<>> /\ ~pg.blobs[1].is_purchased

\* C15: in the selection loop of view_collection a not-purchased album is fatal for
\* that album only: once view_collection is over, every album chosen after a
\* not-purchased album that was tried has been tried as well.
C15_NotPurchasedOnlyThatAlbum ==
    view_pc \in {"returned", "raised"} =>
        \A k \in 1..progress :
            ChosenNotPurchased(k) => progress = Len(album_number_list)

\* the items of the first n pages, in order
RECURSIVE ItemsOfPages(_)
ItemsOfPages(n) == IF n = 0 THEN <<>> ELSE ItemsOfPages(n - 1) \o responses[n].items

IsPrefix(a, b) == Len(a) <= Len(b) /\ a = SubSeq(b, 1, Len(a))

\* C17: get_collection requests page after page, each request after the first carrying
\* the token of the last item of the page before; it yields every item of every
\* received page in order; and it ends without error right after the first page
\* whose more_available is false, also when that page has no items.
C17_FollowsCursor ==
    entry = "get_collection" =>
        /\ gc_raised = ""
        /\ \A n \in 1..Len(posted) :
               IF n = 1
               THEN posted[n] = NOW_TOKEN
               ELSE /\ responses[n - 1].more_available
                    /\ responses[n - 1].items # <<>>
                    /\ posted[n] = responses[n - 1].items[Len(responses[n - 1].items)].token
        /\ IsPrefix(collected, ItemsOfPages(Len(posted)))
        /\ gc_pc = "returned" =>
               /\ collected = ItemsOfPages(Len(posted))
               /\ ~responses[Len(posted)].more_available
        /\ gc_pc = "returned" \/ ENABLED CollNext

====
